---- MODULE Spec2Model ----
(***************************************************************************)
(* Model of app/config.py: the module-load sequence that assembles the     *)
(* Config / DevelopmentConfig / ProductionConfig settings and registers    *)
(* fields and facets on the Kerko composer, and the 'preview' field's      *)
(* transformer chain (two re.sub substitutions).                           *)
(*                                                                         *)
(* A Python str is modelled as a sequence of one-character strings.        *)
(***************************************************************************)
EXTENDS Integers, Sequences, FiniteSets, TLC

VARIABLES
    value,       \* the citation handed to the 'preview' transformers
    cur,         \* the value as it passes through the transformer list
    ppc,         \* position in the transformer list
    environ,     \* the process environment as env sees it
    pc,          \* position of the module load in config.py
    ns,          \* namespace of the class body being executed
    classes,     \* the classes bound at module level, with their own attributes
    composer,    \* the Composer object, once constructed
    CONFIGS,     \* the module-level dict, once bound
    envReads,    \* names passed to env.str / env.bool / env.int, in order
    envChanges,  \* number of environment changes made after the load
    looked       \* result of the latest CONFIGS[name].attr read

pvars == <<value, cur, ppc>>

lvars == <<environ, pc, ns, classes, composer, CONFIGS, envReads, envChanges, looked>>

vars == <<pvars, lvars>>

-----------------------------------------------------------------------------
(* Bounds *)

\* longest input of the rewriter, counted in pieces of Pieces
MaxPieces == 4

\* environment changes followed after the load has completed
MaxEnvChanges == 1

-----------------------------------------------------------------------------
(* Literals of the preview transformers (config.py:104-105) *)

\* the literal of r'^<span>'
OpenTag == <<"<", "s", "p", "a", "n", ">">>

\* the literal of r'</span>$'
CloseTag == <<"<", "/", "s", "p", "a", "n", ">">>

\* the replacement '<div class="csl-entry">'
DivOpen == <<"<", "d", "i", "v", " ", "c", "l", "a", "s", "s", "=", "\"",
             "c", "s", "l", "-", "e", "n", "t", "r", "y", "\"", ">">>

\* the replacement '</div>'
DivClose == <<"<", "/", "d", "i", "v", ">">>

\* the line feed, the one character Python's '$' may leave after a match
NL == "\n"

-----------------------------------------------------------------------------
(* re.sub(pattern, repl, value, count=1) *)

\* the literal lit occupies s[i .. i+Len(lit)-1]
LiteralAt(s, lit, i) ==
    /\ i >= 1
    /\ i + Len(lit) - 1 <= Len(s)
    /\ SubSeq(s, i, i + Len(lit) - 1) = lit

\* a pattern written without '^': a match may start anywhere
AtCaretAnywhere(s, i) == TRUE

\* '^' without re.MULTILINE: only the very start of the string
AtCaret(s, i) == i = 1

\* '$' as under re.MULTILINE: before any line feed
AtDollarMultiline(s, j) ==
    \/ j = Len(s) + 1
    \/ j <= Len(s) /\ s[j] = NL

\* '$' without re.MULTILINE: the end of the string, or just before a line
\* feed that is the last character of the string.  j is the index of the
\* character following the match.
AtDollar(s, j) ==
    \/ j = Len(s) + 1
    \/ j = Len(s) /\ s[j] = NL

\* positions at which r'<span>' matches
OpenMatchesNoCaret(s) ==
    {i \in 1..Len(s) : LiteralAt(s, OpenTag, i)}

\* positions at which r'^<span>' matches
OpenMatches(s) ==
    {i \in 1..Len(s) : AtCaret(s, i) /\ LiteralAt(s, OpenTag, i)}

\* positions at which r'</span>' matches
CloseMatchesNoDollar(s) ==
    {i \in 1..Len(s) : LiteralAt(s, CloseTag, i)}

\* positions at which r'</span>$' matches
CloseMatches(s) ==
    {i \in 1..Len(s) : LiteralAt(s, CloseTag, i) /\ AtDollar(s, i + Len(CloseTag))}

Min(S) == CHOOSE m \in S : \A n \in S : m <= n

\* count=1: only the leftmost match is replaced; no match returns s itself
ReSubOnce(s, matches, patLen, repl) ==
    IF matches = {} THEN s
    ELSE LET i == Min(matches)
         IN  SubSeq(s, 1, i - 1) \o repl \o SubSeq(s, i + patLen, Len(s))

\* lambda value: re.sub(r'^<span>', '<div class="csl-entry">', value, count=1)
OpenSub(s) == ReSubOnce(s, OpenMatches(s), Len(OpenTag), DivOpen)

\* a rewrite of the tag name alone: re.sub(r'span>$', 'div>', value, count=1)
CloseSubNameOnly(s) ==
    ReSubOnce(s,
              {i \in 1..Len(s) : LiteralAt(s, <<"s", "p", "a", "n", ">">>, i)
                                   /\ AtDollar(s, i + 5)},
              5, <<"d", "i", "v", ">">>)

\* lambda value: re.sub(r'</span>$', '</div>', value, count=1)
CloseSub(s) == ReSubOnce(s, CloseMatches(s), Len(CloseTag), DivClose)

\* the transformers list, applied in list order
Preview(s) == CloseSub(OpenSub(s))

-----------------------------------------------------------------------------
(* Inputs of the rewriter: concatenations of at most MaxPieces pieces *)

Pieces == {OpenTag, CloseTag, <<NL>>, <<"x">>, <<"<">>, <<"/", "s", "p", "a", "n", ">">>}

RECURSIVE Concats(_)
Concats(n) ==
    IF n = 0 THEN {<<>>}
    ELSE LET prev == Concats(n - 1)
         IN  prev \cup {s \o p : s \in prev, p \in Pieces}

Inputs == Concats(MaxPieces)

-----------------------------------------------------------------------------
(* The environment and env.str / env.bool / env.int                        *)

\* an optional value: None, or Some(x)
None == <<>>

Some(x) == <<x>>

Has(o) == Len(o) = 1

\* the variables read without a default
RequiredVars == {"FLASK_APP", "SECRET_KEY", "KERKO_ZOTERO_API_KEY",
                 "KERKO_ZOTERO_LIBRARY_ID", "KERKO_ZOTERO_LIBRARY_TYPE"}

\* the variables read with a default
OptionalVars == {"KERKO_DATA_DIR", "ASSETS_DEBUG", "KERKO_ZOTERO_START",
                 "KERKO_ZOTERO_END", "LOGGING_LEVEL"}

\* Values a variable may hold when set.  A path is the sequence of its
\* parts, an absolute one starting with "/"; the raw text of a number is the
\* sequence of its characters.
EnvValues(name) ==
    CASE name = "FLASK_APP" -> {<<"/", "srv", "is", "wsgi.py">>, <<"wsgi.py">>}
      [] name = "SECRET_KEY" -> {"s3cret"}
      [] name = "KERKO_ZOTERO_API_KEY" -> {"zkey"}
      [] name = "KERKO_ZOTERO_LIBRARY_ID" -> {"2405685"}
      [] name = "KERKO_ZOTERO_LIBRARY_TYPE" -> {"group"}
      [] name = "KERKO_DATA_DIR" -> {<<"/", "var", "kerko">>}
      [] name = "ASSETS_DEBUG" -> {"1", "no", "maybe"}
      [] name = "KERKO_ZOTERO_START" -> {<<"2", "5">>, <<"x">>}
      [] name = "KERKO_ZOTERO_END" -> {<<"-", "7">>}
      [] name = "LOGGING_LEVEL" -> {"INFO"}

EnvOptions(name) == {None} \cup {Some(v) : v \in EnvValues(name)}

Environments ==
    [FLASK_APP : EnvOptions("FLASK_APP"),
     SECRET_KEY : EnvOptions("SECRET_KEY"),
     KERKO_ZOTERO_API_KEY : EnvOptions("KERKO_ZOTERO_API_KEY"),
     KERKO_ZOTERO_LIBRARY_ID : EnvOptions("KERKO_ZOTERO_LIBRARY_ID"),
     KERKO_ZOTERO_LIBRARY_TYPE : EnvOptions("KERKO_ZOTERO_LIBRARY_TYPE"),
     KERKO_DATA_DIR : EnvOptions("KERKO_DATA_DIR"),
     ASSETS_DEBUG : EnvOptions("ASSETS_DEBUG"),
     KERKO_ZOTERO_START : EnvOptions("KERKO_ZOTERO_START"),
     KERKO_ZOTERO_END : EnvOptions("KERKO_ZOTERO_END"),
     LOGGING_LEVEL : EnvOptions("LOGGING_LEVEL")]

\* env.str(name) / env.str(name, default): the variable's value when it is
\* set, else the default; None stands for the EnvError raised when there is
\* neither
EnvStr(e, name, default) == IF Has(e[name]) THEN e[name] ELSE default

\* the texts marshmallow's Boolean field takes for True and for False
Truthy == {"t", "T", "true", "True", "TRUE", "on", "On", "ON",
           "y", "Y", "yes", "Yes", "YES", "1"}

Falsy == {"f", "F", "false", "False", "FALSE", "off", "Off", "OFF",
          "n", "N", "no", "No", "NO", "0"}

\* env.bool(name, default); None stands for the validation error raised on
\* a text that is neither truthy nor falsy
EnvBool(e, name, default) ==
    IF Has(e[name])
    THEN LET raw == e[name][1]
         IN  IF raw \in Truthy THEN Some(TRUE)
             ELSE IF raw \in Falsy THEN Some(FALSE)
             ELSE None
    ELSE default

Digits == <<"0", "1", "2", "3", "4", "5", "6", "7", "8", "9">>

IsDigit(c) == \E d \in 1..10 : Digits[d] = c

DigitVal(c) == (CHOOSE d \in 1..10 : Digits[d] = c) - 1

RECURSIVE DecVal(_)
DecVal(ds) ==
    IF ds = <<>> THEN 0
    ELSE 10 * DecVal(SubSeq(ds, 1, Len(ds) - 1)) + DigitVal(ds[Len(ds)])

\* int(raw) for a text of decimal digits with an optional leading '-'
ParseInt(raw) ==
    LET neg == Len(raw) >= 1 /\ raw[1] = "-"
        ds == IF neg THEN Tail(raw) ELSE raw
    IN  IF ds # <<>> /\ \A i \in 1..Len(ds) : IsDigit(ds[i])
        THEN Some(IF neg THEN 0 - DecVal(ds) ELSE DecVal(ds))
        ELSE None

\* env.int(name, default); None stands for the validation error
EnvInt(e, name, default) ==
    IF Has(e[name]) THEN ParseInt(e[name][1]) ELSE default

-----------------------------------------------------------------------------
(* pathlib *)

\* the working directory of the process
Cwd == <<"/", "home", "is">>

\* the location of config.py itself (__file__)
ModuleFile == <<"/", "srv", "is", "app", "config.py">>

IsAbsolute(p) == Len(p) >= 1 /\ p[1] = "/"

\* Path.parent: the root and '.' are their own parents
Parent(p) ==
    IF p = <<>> \/ p = <<"/">> THEN p ELSE SubSeq(p, 1, Len(p) - 1)

\* Path.absolute(): a relative path is taken from the working directory
Absolute(p) == IF IsAbsolute(p) THEN p ELSE Cwd \o p

-----------------------------------------------------------------------------
(* kerko.composer.Composer, kerko.specs *)

\* the default fields this configuration relies on: those named by
\* KERKO_RESULTS_FIELDS, 'preview' being the one added here
DefaultFieldKeys == <<"id", "attachments", "bib", "coins", "data", "url">>

\* the default facets named by the Composer call
DefaultFacetKeys == <<"facet_tag", "facet_link", "facet_item_type">>

\* a Composer call that excludes no default field
ExcludeDefaultFieldsNone == {}

\* exclude_default_fields
ExcludeDefaultFields == {"data"}

\* exclude_default_facets
ExcludeDefaultFacets == {"facet_tag", "facet_link", "facet_item_type"}

DefaultField(k) ==
    [key |-> k, default |-> TRUE, field_type |-> "default",
     extractor |-> "default", transformers |-> <<>>, codec |-> "default"]

DefaultFacet(k) ==
    [key |-> k, default |-> TRUE, filter_key |-> "default", title |-> "default",
     weight |-> 0, collection_key |-> ""]

FieldSpec(k, ft, ex, tr, cd) ==
    [key |-> k, default |-> FALSE, field_type |-> ft,
     extractor |-> ex, transformers |-> tr, codec |-> cd]

CollectionFacetSpec(k, fk, t, w, ck) ==
    [key |-> k, default |-> FALSE, filter_key |-> fk, title |-> t,
     weight |-> w, collection_key |-> ck]

\* the elements of seq whose key is not excluded, in order
RECURSIVE Keep(_, _)
Keep(keys, excluded) ==
    IF keys = <<>> THEN <<>>
    ELSE (IF keys[1] \in excluded THEN <<>> ELSE <<keys[1]>>)
         \o Keep(Tail(keys), excluded)

\* Composer(...): the default fields and facets less the excluded ones
NewComposer(whoosh_language, exclude_facets, exclude_fields, include_re, exclude_re) ==
    [whoosh_language |-> whoosh_language,
     default_child_include_re |-> include_re,
     default_child_exclude_re |-> exclude_re,
     fields |-> [i \in 1..Len(Keep(DefaultFieldKeys, exclude_fields)) |->
                    DefaultField(Keep(DefaultFieldKeys, exclude_fields)[i])],
     facets |-> [i \in 1..Len(Keep(DefaultFacetKeys, exclude_facets)) |->
                    DefaultFacet(Keep(DefaultFacetKeys, exclude_facets)[i])]]

\* Composer.add_field: one more registration
add_field(c, f) == [c EXCEPT !.fields = Append(@, f)]

\* Composer.add_facet: one more registration
add_facet(c, f) == [c EXCEPT !.facets = Append(@, f)]

-----------------------------------------------------------------------------
(* Module load of config.py, one statement per step *)

\* the settings of Config that are literals (lines 28-66)
StaticSettings ==
    [LOGGING_HANDLER |-> "default",
     EXPLAIN_TEMPLATE_LOADING |-> FALSE,
     LIBSASS_INCLUDES |->
        << Parent(Parent(ModuleFile))
               \o <<"static", "src", "vendor", "bootstrap", "scss">>,
           Parent(Parent(ModuleFile))
               \o <<"static", "src", "vendor", "@fortawesome", "fontawesome-free", "scss">> >>,
     BABEL_DEFAULT_LOCALE |-> "en_GB",
     KERKO_WHOOSH_LANGUAGE |-> "en",
     KERKO_ZOTERO_LOCALE |-> "en-GB",
     HOME_URL |-> "https://is.eved.io",
     HOME_TITLE |-> "Implementation Science",
     NAV_TITLE |-> "Home",
     KERKO_TITLE |-> "Implementation Science",
     EVED_IO_TITLE |-> "eved.io",
     EVED_IO_LINK |-> "https://eved.io",
     KERKO_PRINT_ITEM_LINK |-> TRUE,
     KERKO_PRINT_CITATIONS_LINK |-> TRUE,
     KERKO_RESULTS_FIELDS |-> <<"id", "attachments", "bib", "coins", "data", "preview", "url">>,
     KERKO_RESULTS_ABSTRACTS |-> TRUE,
     KERKO_RESULTS_ABSTRACTS_MAX_LENGTH |-> 500,
     KERKO_RESULTS_ABSTRACTS_MAX_LENGTH_LEEWAY |-> 40,
     KERKO_TEMPLATE_BASE |-> "app/base.html.jinja2",
     KERKO_TEMPLATE_LAYOUT |-> "app/layout.html.jinja2",
     KERKO_TEMPLATE_SEARCH |-> "app/search.html.jinja2",
     KERKO_TEMPLATE_SEARCH_ITEM |-> "app/search-item.html.jinja2",
     KERKO_TEMPLATE_ITEM |-> "app/item.html.jinja2",
     KERKO_DOWNLOAD_ATTACHMENT_NEW_WINDOW |-> TRUE,
     KERKO_RELATIONS_INITIAL_LIMIT |-> 50,
     KERKO_CSL_STYLE |-> "https://docs.edtechhub.org/static/dist/csl/eth_apa.xml?202012301815"]

\* the class-body namespace with one more name bound
Bind(attr, v) == (attr :> v) @@ ns

\* a statement that only binds names in the class body
Step(here, next, newns) ==
    /\ pc = here
    /\ pc' = next
    /\ ns' = newns
    /\ UNCHANGED <<environ, classes, composer, CONFIGS, envReads, envChanges, looked>>
    /\ UNCHANGED pvars

\* a statement attr = env.<type>(name, ...): binds the value got, or the
\* exception leaves the class body and ends the load
EnvStep(here, next, name, attr, got) ==
    /\ pc = here
    /\ envReads' = Append(envReads, name)
    /\ IF Has(got)
       THEN pc' = next /\ ns' = Bind(attr, got[1])
       ELSE pc' = "failed" /\ ns' = <<>>
    /\ UNCHANGED <<environ, classes, composer, CONFIGS, envChanges, looked>>
    /\ UNCHANGED pvars

\* a call on KERKO_COMPOSER
ComposerStep(here, next, newcomposer) ==
    /\ pc = here
    /\ pc' = next
    /\ composer' = Some(newcomposer)
    /\ UNCHANGED <<environ, ns, classes, CONFIGS, envReads, envChanges, looked>>
    /\ UNCHANGED pvars

\* the end of a class statement: the class is bound at module level
ClassStep(here, next, name) ==
    /\ pc = here
    /\ pc' = next
    /\ classes' = (name :> ns) @@ classes
    /\ ns' = <<>>
    /\ UNCHANGED <<environ, composer, CONFIGS, envReads, envChanges, looked>>
    /\ UNCHANGED pvars

\* env = Env(); env.read_env()
ReadEnv == Step("read_env", "app_dir", ns)

\* app_dir = pathlib.Path(env.str('FLASK_APP')).parent.absolute()
LoadAppDir ==
    LET got == EnvStr(environ, "FLASK_APP", None)
    IN  EnvStep("app_dir", "SECRET_KEY", "FLASK_APP", "app_dir",
                IF Has(got) THEN Some(Absolute(Parent(got[1]))) ELSE None)

LoadSecretKey ==
    EnvStep("SECRET_KEY", "KERKO_ZOTERO_API_KEY", "SECRET_KEY", "SECRET_KEY",
            EnvStr(environ, "SECRET_KEY", None))

LoadApiKey ==
    EnvStep("KERKO_ZOTERO_API_KEY", "KERKO_ZOTERO_LIBRARY_ID",
            "KERKO_ZOTERO_API_KEY", "KERKO_ZOTERO_API_KEY",
            EnvStr(environ, "KERKO_ZOTERO_API_KEY", None))

LoadLibraryId ==
    EnvStep("KERKO_ZOTERO_LIBRARY_ID", "KERKO_ZOTERO_LIBRARY_TYPE",
            "KERKO_ZOTERO_LIBRARY_ID", "KERKO_ZOTERO_LIBRARY_ID",
            EnvStr(environ, "KERKO_ZOTERO_LIBRARY_ID", None))

\* the last required read given a default
LoadLibraryTypeDefaulted ==
    EnvStep("KERKO_ZOTERO_LIBRARY_TYPE", "KERKO_DATA_DIR",
            "KERKO_ZOTERO_LIBRARY_TYPE", "KERKO_ZOTERO_LIBRARY_TYPE",
            EnvStr(environ, "KERKO_ZOTERO_LIBRARY_TYPE", Some("group")))

LoadLibraryType ==
    EnvStep("KERKO_ZOTERO_LIBRARY_TYPE", "KERKO_DATA_DIR",
            "KERKO_ZOTERO_LIBRARY_TYPE", "KERKO_ZOTERO_LIBRARY_TYPE",
            EnvStr(environ, "KERKO_ZOTERO_LIBRARY_TYPE", None))

\* KERKO_DATA_DIR = env.str('KERKO_DATA_DIR', str(app_dir / 'data' / 'kerko'))
LoadDataDir ==
    EnvStep("KERKO_DATA_DIR", "static", "KERKO_DATA_DIR", "KERKO_DATA_DIR",
            EnvStr(environ, "KERKO_DATA_DIR",
                   Some(ns["app_dir"] \o <<"data", "kerko">>)))

LoadStatic == Step("static", "KERKO_COMPOSER", StaticSettings @@ ns)

\* KERKO_COMPOSER = Composer(...)
NewKerkoComposer ==
    /\ ComposerStep("KERKO_COMPOSER", "add_data",
                    NewComposer(ns["KERKO_WHOOSH_LANGUAGE"], ExcludeDefaultFacets,
                                ExcludeDefaultFields, "^(_publish|publishPDF)$", ""))

\* KERKO_COMPOSER.add_field(FieldSpec(key='data', ...))
AddFieldData ==
    ComposerStep("add_data", "add_preview",
                 add_field(composer[1],
                           FieldSpec("data", "STORED", "RawDataExtractor",
                                     <<"extra_field_cleaner">>, "JSONFieldCodec")))

\* KERKO_COMPOSER.add_field(FieldSpec(key='preview', ...))
AddFieldPreview ==
    ComposerStep("add_preview", "facet_proposal",
                 add_field(composer[1],
                           FieldSpec("preview", "STORED", "ItemExtractor(citation)",
                                     <<"OpenSub", "CloseSub">>, "default")))

AddFacetProposal ==
    ComposerStep("facet_proposal", "facet_theme",
                 add_facet(composer[1],
                           CollectionFacetSpec("facet_proposal", "proposal",
                                               "Our proposal", 10, "XWXU8XAB")))

\* the second facet pasted from the first with only key and title changed
AddFacetThemeCopied ==
    ComposerStep("facet_theme", "facet_location",
                 add_facet(composer[1],
                           CollectionFacetSpec("facet_theme", "proposal",
                                               "Theme", 10, "XWXU8XAB")))

AddFacetTheme ==
    ComposerStep("facet_theme", "facet_location",
                 add_facet(composer[1],
                           CollectionFacetSpec("facet_theme", "theme",
                                               "Theme", 20, "Z27MIXI7")))

AddFacetLocation ==
    ComposerStep("facet_location", "end_Config",
                 add_facet(composer[1],
                           CollectionFacetSpec("facet_location", "location",
                                               "Location", 30, "5JVH374W")))

\* the end of class Config; KERKO_COMPOSER refers to the composer object
DefineConfig ==
    /\ pc = "end_Config"
    /\ pc' = "dev_head"
    /\ classes' = ("Config" :> Bind("KERKO_COMPOSER", "composer")) @@ classes
    /\ ns' = <<>>
    /\ UNCHANGED <<environ, composer, CONFIGS, envReads, envChanges, looked>>
    /\ UNCHANGED pvars

\* class DevelopmentConfig(Config): CONFIG, DEBUG
DevHead ==
    Step("dev_head", "dev_ASSETS_DEBUG",
         [CONFIG |-> "development", DEBUG |-> TRUE] @@ ns)

DevAssetsDebug ==
    EnvStep("dev_ASSETS_DEBUG", "dev_KERKO_ZOTERO_START", "ASSETS_DEBUG", "ASSETS_DEBUG",
            EnvBool(environ, "ASSETS_DEBUG", Some(TRUE)))

DevZoteroStart ==
    EnvStep("dev_KERKO_ZOTERO_START", "dev_KERKO_ZOTERO_END",
            "KERKO_ZOTERO_START", "KERKO_ZOTERO_START",
            EnvInt(environ, "KERKO_ZOTERO_START", Some(0)))

DevZoteroEnd ==
    EnvStep("dev_KERKO_ZOTERO_END", "dev_LIBSASS_STYLE",
            "KERKO_ZOTERO_END", "KERKO_ZOTERO_END",
            EnvInt(environ, "KERKO_ZOTERO_END", Some(0)))

DevLibsassStyle ==
    Step("dev_LIBSASS_STYLE", "dev_LOGGING_LEVEL", Bind("LIBSASS_STYLE", "expanded"))

DevLoggingLevel ==
    EnvStep("dev_LOGGING_LEVEL", "end_DevelopmentConfig", "LOGGING_LEVEL", "LOGGING_LEVEL",
            EnvStr(environ, "LOGGING_LEVEL", Some("DEBUG")))

DefineDevelopmentConfig ==
    ClassStep("end_DevelopmentConfig", "prod_head", "DevelopmentConfig")

\* class ProductionConfig(Config): CONFIG, DEBUG
ProdHead ==
    Step("prod_head", "prod_ASSETS_DEBUG",
         [CONFIG |-> "production", DEBUG |-> FALSE] @@ ns)

\* the production read pasted from DevelopmentConfig, default included
ProdAssetsDebugCopied ==
    EnvStep("prod_ASSETS_DEBUG", "prod_ASSETS_AUTO_BUILD", "ASSETS_DEBUG", "ASSETS_DEBUG",
            EnvBool(environ, "ASSETS_DEBUG", Some(TRUE)))

ProdAssetsDebug ==
    EnvStep("prod_ASSETS_DEBUG", "prod_ASSETS_AUTO_BUILD", "ASSETS_DEBUG", "ASSETS_DEBUG",
            EnvBool(environ, "ASSETS_DEBUG", Some(FALSE)))

ProdAssetsAutoBuild ==
    Step("prod_ASSETS_AUTO_BUILD", "prod_LOGGING_LEVEL", Bind("ASSETS_AUTO_BUILD", FALSE))

ProdLoggingLevel ==
    EnvStep("prod_LOGGING_LEVEL", "prod_tail", "LOGGING_LEVEL", "LOGGING_LEVEL",
            EnvStr(environ, "LOGGING_LEVEL", Some("WARNING")))

\* GOOGLE_ANALYTICS_ID, LIBSASS_STYLE
ProdTail ==
    Step("prod_tail", "end_ProductionConfig",
         [GOOGLE_ANALYTICS_ID |-> "", LIBSASS_STYLE |-> "compressed"] @@ ns)

DefineProductionConfig ==
    ClassStep("end_ProductionConfig", "CONFIGS", "ProductionConfig")

\* CONFIGS = {'development': DevelopmentConfig, 'production': ProductionConfig}
BindCONFIGS ==
    /\ pc = "CONFIGS"
    /\ pc' = "done"
    /\ CONFIGS' = Some([development |-> "DevelopmentConfig",
                        production |-> "ProductionConfig"])
    /\ UNCHANGED <<environ, ns, classes, composer, envReads, envChanges, looked>>
    /\ UNCHANGED pvars

-----------------------------------------------------------------------------
(* After the load: the application reads settings, the environment may change *)

\* the names a class answers to: its own and those of its base, Config
AttrNames(cls) == DOMAIN classes[cls] \cup DOMAIN classes["Config"]

\* attribute lookup, own attributes before inherited ones
Attr(cls, a) ==
    IF a \in DOMAIN classes[cls] THEN classes[cls][a] ELSE classes["Config"][a]

\* the settings the application is followed reading
ReadAttrs == {"SECRET_KEY", "KERKO_DATA_DIR", "ASSETS_DEBUG", "LOGGING_LEVEL",
              "KERKO_ZOTERO_START", "CONFIG"}

\* a lookup that reads LOGGING_LEVEL from the environment again
GetSettingReload ==
    /\ pc = "done"
    /\ \E name \in DOMAIN CONFIGS[1] :
        \E a \in ReadAttrs \cap AttrNames(CONFIGS[1][name]) :
            looked' = Some([config |-> name, attr |-> a,
                            val |-> Attr(CONFIGS[1][name], a)])
    /\ classes' = [classes EXCEPT !["DevelopmentConfig"] =
                       ("LOGGING_LEVEL" :> EnvStr(environ, "LOGGING_LEVEL", Some("DEBUG"))[1]) @@ @]
    /\ envReads' = Append(envReads, "LOGGING_LEVEL")
    /\ UNCHANGED <<environ, pc, ns, composer, CONFIGS, envChanges>>
    /\ UNCHANGED pvars

\* CONFIGS[name].attr
GetSetting ==
    /\ pc = "done"
    /\ \E name \in DOMAIN CONFIGS[1] :
        \E a \in ReadAttrs \cap AttrNames(CONFIGS[1][name]) :
            looked' = Some([config |-> name, attr |-> a,
                            val |-> Attr(CONFIGS[1][name], a)])
    /\ UNCHANGED <<environ, pc, ns, classes, composer, CONFIGS, envReads, envChanges>>
    /\ UNCHANGED pvars

\* the process environment is changed (os.environ, putenv) after the load
SetEnv ==
    /\ pc = "done"
    /\ envChanges < MaxEnvChanges
    /\ \E n \in RequiredVars \cup OptionalVars :
        \E v \in EnvOptions(n) :
            /\ v # environ[n]
            /\ environ' = [environ EXCEPT ![n] = v]
    /\ envChanges' = envChanges + 1
    /\ UNCHANGED <<pc, ns, classes, composer, CONFIGS, envReads, looked>>
    /\ UNCHANGED pvars

Init ==
    /\ environ \in Environments
    /\ pc = "read_env"
    /\ ns = <<>>
    /\ classes = <<>>
    /\ composer = None
    /\ CONFIGS = None
    /\ envReads = <<>>
    /\ envChanges = 0
    /\ looked = None
    /\ value = <<>>
    /\ cur = <<>>
    /\ ppc = "idle"

Next ==
    \/ ReadEnv
    \/ LoadAppDir
    \/ LoadSecretKey
    \/ LoadApiKey
    \/ LoadLibraryId
    \/ LoadLibraryType
    \/ LoadDataDir
    \/ LoadStatic
    \/ NewKerkoComposer
    \/ AddFieldData
    \/ AddFieldPreview
    \/ AddFacetProposal
    \/ AddFacetTheme
    \/ AddFacetLocation
    \/ DefineConfig
    \/ DevHead
    \/ DevAssetsDebug
    \/ DevZoteroStart
    \/ DevZoteroEnd
    \/ DevLibsassStyle
    \/ DevLoggingLevel
    \/ DefineDevelopmentConfig
    \/ ProdHead
    \/ ProdAssetsDebug
    \/ ProdAssetsAutoBuild
    \/ ProdLoggingLevel
    \/ ProdTail
    \/ DefineProductionConfig
    \/ BindCONFIGS
    \/ GetSetting
    \/ SetEnv

Spec == Init /\ [][Next]_vars

-----------------------------------------------------------------------------
(* The 'preview' field's extraction: ItemExtractor yields the citation,    *)
(* then each transformer of the list is applied in turn.  The rewriter is  *)
(* a function of the citation alone; the module-load state stays put.      *)

PreviewInit ==
    /\ value \in Inputs
    /\ cur = value
    /\ ppc = "extracted"
    /\ environ = [n \in RequiredVars \cup OptionalVars |-> None]
    /\ pc = "read_env"
    /\ ns = <<>>
    /\ classes = <<>>
    /\ composer = None
    /\ CONFIGS = None
    /\ envReads = <<>>
    /\ envChanges = 0
    /\ looked = None

ApplyOpenSub ==
    /\ ppc = "extracted"
    /\ cur' = OpenSub(cur)
    /\ ppc' = "opened"
    /\ UNCHANGED value
    /\ UNCHANGED lvars

ApplyCloseSub ==
    /\ ppc = "opened"
    /\ cur' = CloseSub(cur)
    /\ ppc' = "done"
    /\ UNCHANGED value
    /\ UNCHANGED lvars

PreviewNext == ApplyOpenSub \/ ApplyCloseSub

SpecPreview == PreviewInit /\ [][PreviewNext]_vars


-----------------------------------------------------------------------------
(* Properties of the preview rewriter *)

StartsWith(s, p) == LiteralAt(s, p, 1)

EndsWith(s, p) == LiteralAt(s, p, Len(s) - Len(p) + 1)

\* s with its leading '<span>' replaced when o, and the '</span>' that is
\* followed by exactly the last tail characters of s replaced when c; every
\* other character is copied in order
Rewrap(s, o, c, tail) ==
    (IF o THEN DivOpen ELSE <<>>)
    \o SubSeq(s, (IF o THEN Len(OpenTag) + 1 ELSE 1),
                 Len(s) - tail - (IF c THEN Len(CloseTag) ELSE 0))
    \o (IF c THEN DivClose ELSE <<>>)
    \o SubSeq(s, Len(s) - tail + 1, Len(s))

\* number of characters after the closing tag that '$' tolerates in s
Tails(s) == {0} \cup (IF Len(s) >= 1 /\ s[Len(s)] = NL THEN {1} ELSE {})

\* s ends with '</span>', or with '</span>' and one final line feed
ClosesAt(s, tail) == LiteralAt(s, CloseTag, Len(s) - tail - Len(CloseTag) + 1)

\* C1: an input '<span>' + body + '</span>' is rewritten to exactly
\* '<div class="csl-entry">' + body + '</div>', the body copied unchanged,
\* whatever the body holds (nothing, more tags, line feeds).
C1_WrappedRewritten ==
    (ppc = "done" /\ StartsWith(value, OpenTag) /\ EndsWith(value, CloseTag)
        /\ Len(value) >= Len(OpenTag) + Len(CloseTag))
    => cur = DivOpen
             \o SubSeq(value, Len(OpenTag) + 1, Len(value) - Len(CloseTag))
             \o DivClose

\* a wrapped input whose body is itself a closing tag has been rewritten
C1_Witness ==
    /\ ppc = "done"
    /\ value = OpenTag \o CloseTag \o CloseTag
    /\ cur = DivOpen \o CloseTag \o DivClose

\* C2 (as stated): the output differs from the input in at most a '<span>'
\* at the very start and a '</span>' occupying the very last characters;
\* all other characters are copied in order.
C2_OnlyStrictEndsChange ==
    ppc = "done" =>
        \E o \in {FALSE} \cup {b \in {TRUE} : StartsWith(value, OpenTag)},
           c \in {FALSE} \cup {b \in {TRUE} : EndsWith(value, CloseTag)} :
            cur = Rewrap(value, o, c, 0)

\* C2 (amended): the output differs from the input in at most a '<span>' at
\* the very start and a '</span>' that either occupies the very last
\* characters or is followed only by one final line feed; all other
\* characters, that line feed included, are copied in order.
C2_OnlyEndsChange ==
    ppc = "done" =>
        \E o \in {FALSE} \cup {b \in {TRUE} : StartsWith(value, OpenTag)},
           tail \in Tails(value) :
            \E c \in {FALSE} \cup {b \in {TRUE} : ClosesAt(value, tail)} :
                cur = Rewrap(value, o, c, tail)

\* a closing tag before the final line feed has been rewritten, with an
\* inner opening tag and the line feed left alone
C2_Witness ==
    /\ ppc = "done"
    /\ value = <<"x">> \o OpenTag \o CloseTag \o <<NL>>
    /\ cur = <<"x">> \o OpenTag \o DivClose \o <<NL>>

\* C3 (as stated): the boundaries are handled independently, a boundary
\* being matched when the string begins with '<span>', respectively ends
\* with '</span>': neither matched returns the input, only one matched
\* rewrites only that one.
C3_StrictBoundaries ==
    ppc = "done" =>
        LET o == StartsWith(value, OpenTag)
            c == EndsWith(value, CloseTag)
        IN  /\ (~o /\ ~c) => cur = value
            /\ (o /\ ~c) => cur = Rewrap(value, TRUE, FALSE, 0)
            /\ (~o /\ c) => cur = Rewrap(value, FALSE, TRUE, 0)

\* C3 (amended): the same, the end boundary being matched when the string
\* ends with '</span>' or with '</span>' followed by one final line feed.
C3_Boundaries ==
    ppc = "done" =>
        LET o == StartsWith(value, OpenTag)
            tail == IF ClosesAt(value, 1) /\ 1 \in Tails(value) THEN 1 ELSE 0
            c == ClosesAt(value, tail)
        IN  /\ (~o /\ ~c) => cur = value
            /\ (o /\ ~c) => cur = Rewrap(value, TRUE, FALSE, 0)
            /\ (~o /\ c) => cur = Rewrap(value, FALSE, TRUE, tail)

\* only the start boundary matched: the output is unbalanced markup
C3_Witness ==
    /\ ppc = "done"
    /\ value = OpenTag \o <<"x">> \o CloseTag \o <<"x">>
    /\ cur = DivOpen \o <<"x">> \o CloseTag \o <<"x">>

\* C9: the chain is idempotent: applied to its own output it returns that
\* output, which neither begins with '<span>' nor ends with '</span>'.
C9_Idempotent ==
    ppc = "done" =>
        /\ Preview(cur) = cur
        /\ ~StartsWith(cur, OpenTag)
        /\ ~EndsWith(cur, CloseTag)

\* an output that differs from its input and still holds both tags inside
C9_Witness ==
    /\ ppc = "done"
    /\ value = OpenTag \o OpenTag \o CloseTag \o CloseTag
    /\ cur = DivOpen \o OpenTag \o CloseTag \o DivClose
    /\ Preview(cur) = cur

\* C10: the two transformers commute on every input.
C10_Commute ==
    /\ CloseSub(OpenSub(value)) = OpenSub(CloseSub(value))
    /\ ppc = "done" => cur = OpenSub(CloseSub(value))

\* the degenerate input '<span>' has gone through the chain
C10_Witness ==
    /\ ppc = "done"
    /\ value = OpenTag
    /\ cur = DivOpen

-----------------------------------------------------------------------------
(* Properties of the module load *)

\* the load positions that precede the end of the required reads
RequiredReadSteps == {"read_env", "app_dir", "SECRET_KEY", "KERKO_ZOTERO_API_KEY",
                      "KERKO_ZOTERO_LIBRARY_ID", "KERKO_ZOTERO_LIBRARY_TYPE"}

SomeRequiredAbsent == \E n \in RequiredVars : ~Has(environ[n])

\* C4: if a required variable is absent the load gets no further than the
\* required reads and ends in failure at the read of an absent variable:
\* no Composer is constructed, no class is bound, CONFIGS is not bound.
C4_FailFast ==
    (envChanges = 0 /\ SomeRequiredAbsent) =>
        /\ pc \in RequiredReadSteps \cup {"failed"}
        /\ composer = None
        /\ DOMAIN classes = {}
        /\ CONFIGS = None
        /\ pc = "failed" =>
            /\ envReads # <<>>
            /\ envReads[Len(envReads)] \in RequiredVars
            /\ ~Has(environ[envReads[Len(envReads)]])
            /\ \A i \in 1..(Len(envReads) - 1) : Has(environ[envReads[i]])

\* the load has failed at the last required read, the four before it done
C4_Witness ==
    /\ pc = "failed"
    /\ ~Has(environ.KERKO_ZOTERO_LIBRARY_TYPE)
    /\ envReads = <<"FLASK_APP", "SECRET_KEY", "KERKO_ZOTERO_API_KEY",
                    "KERKO_ZOTERO_LIBRARY_ID", "KERKO_ZOTERO_LIBRARY_TYPE">>
    /\ composer = None

\* the value expected of a setting read with a default
OrDefault(name, d) == IF Has(environ[name]) THEN environ[name][1] ELSE d

\* C5: once the load has completed, in an unchanged environment, the
\* required settings equal their variables in both configurations and each
\* optional setting is its variable's parsed value, or else its default.
C5_SettingsFromEnvironment ==
    (pc = "done" /\ envChanges = 0) =>
        /\ \A cfg \in {"DevelopmentConfig", "ProductionConfig"} :
            /\ \A n \in RequiredVars \ {"FLASK_APP"} : Attr(cfg, n) = environ[n][1]
            /\ Attr(cfg, "KERKO_DATA_DIR") =
                   OrDefault("KERKO_DATA_DIR",
                             Absolute(Parent(environ.FLASK_APP[1])) \o <<"data", "kerko">>)
        /\ Attr("DevelopmentConfig", "ASSETS_DEBUG") =
               (IF Has(environ.ASSETS_DEBUG) THEN environ.ASSETS_DEBUG[1] \in Truthy ELSE TRUE)
        /\ Attr("ProductionConfig", "ASSETS_DEBUG") =
               (IF Has(environ.ASSETS_DEBUG) THEN environ.ASSETS_DEBUG[1] \in Truthy ELSE FALSE)
        /\ Attr("DevelopmentConfig", "KERKO_ZOTERO_START") =
               (IF Has(environ.KERKO_ZOTERO_START)
                THEN ParseInt(environ.KERKO_ZOTERO_START[1])[1] ELSE 0)
        /\ Attr("DevelopmentConfig", "KERKO_ZOTERO_END") =
               (IF Has(environ.KERKO_ZOTERO_END)
                THEN ParseInt(environ.KERKO_ZOTERO_END[1])[1] ELSE 0)
        /\ Attr("DevelopmentConfig", "LOGGING_LEVEL") = OrDefault("LOGGING_LEVEL", "DEBUG")
        /\ Attr("ProductionConfig", "LOGGING_LEVEL") = OrDefault("LOGGING_LEVEL", "WARNING")

\* a completed load with a relative FLASK_APP, defaults for the data
\* directory, ASSETS_DEBUG and LOGGING_LEVEL, and parsed numbers
C5_Witness ==
    /\ pc = "done"
    /\ envChanges = 0
    /\ environ.FLASK_APP = Some(<<"wsgi.py">>)
    /\ ~Has(environ.KERKO_DATA_DIR)
    /\ ~Has(environ.ASSETS_DEBUG)
    /\ ~Has(environ.LOGGING_LEVEL)
    /\ environ.KERKO_ZOTERO_START = Some(<<"2", "5">>)
    /\ environ.KERKO_ZOTERO_END = Some(<<"-", "7">>)
    /\ Attr("ProductionConfig", "KERKO_DATA_DIR") = <<"/", "home", "is", "data", "kerko">>
    /\ Attr("DevelopmentConfig", "ASSETS_DEBUG") = TRUE
    /\ Attr("ProductionConfig", "ASSETS_DEBUG") = FALSE
    /\ Attr("DevelopmentConfig", "KERKO_ZOTERO_START") = 25
    /\ Attr("DevelopmentConfig", "KERKO_ZOTERO_END") = 0 - 7
    /\ Attr("DevelopmentConfig", "LOGGING_LEVEL") = "DEBUG"
    /\ Attr("ProductionConfig", "LOGGING_LEVEL") = "WARNING"

\* C6: a class, once bound, keeps every attribute value, CONFIGS once bound
\* stays as bound, and after the load has completed no step reads the
\* environment or touches the classes, CONFIGS or the composer, whatever is
\* looked up and however the environment changes.
C6_ReadOnlyAfterLoad ==
    [][ /\ \A c \in DOMAIN classes :
            c \in DOMAIN classes' /\ classes'[c] = classes[c]
        /\ Has(CONFIGS) => CONFIGS' = CONFIGS
        /\ pc = "done" =>
            /\ pc' = "done"
            /\ classes' = classes
            /\ CONFIGS' = CONFIGS
            /\ composer' = composer
            /\ envReads' = envReads ]_vars

\* LOGGING_LEVEL was unset after the load, and the setting read afterwards
\* is still the value taken at startup
C6_Witness ==
    /\ pc = "done"
    /\ envChanges = 1
    /\ ~Has(environ.LOGGING_LEVEL)
    /\ looked = Some([config |-> "development", attr |-> "LOGGING_LEVEL", val |-> "INFO"])

\* no two registrations of seq have the same key
UniqueKeys(seq) ==
    \A i, j \in 1..Len(seq) : i # j => seq[i].key # seq[j].key

\* the registrations of seq under key k
WithKey(seq, k) == SelectSeq(seq, LAMBDA f : f.key = k)

\* C7: from the construction of the composer on, after every registration,
\* field keys are unique and facet keys are unique; the default 'data'
\* field is gone before the custom one is added, and from then on the one
\* 'data' field is the custom one, whose extractor applies
\* extra_field_cleaner.
C7_UniqueKeys ==
    Has(composer) =>
        /\ UniqueKeys(composer[1].fields)
        /\ UniqueKeys(composer[1].facets)
        /\ pc = "add_data" => WithKey(composer[1].fields, "data") = <<>>
        /\ pc # "add_data" =>
            /\ Len(WithKey(composer[1].fields, "data")) = 1
            /\ WithKey(composer[1].fields, "data")[1].default = FALSE
            /\ WithKey(composer[1].fields, "data")[1].transformers = <<"extra_field_cleaner">>

\* all registrations of the class body are made
C7_Witness ==
    /\ pc = "end_Config"
    /\ Len(composer[1].fields) = 7
    /\ Len(WithKey(composer[1].fields, "preview")) = 1
    /\ Len(composer[1].facets) = 3

\* the facets registered by add_facet, in order
Added(c) == SelectSeq(c.facets, LAMBDA f : ~f.default)

Column(seq, Field(_)) == [i \in 1..Len(seq) |-> Field(seq[i])]

IsPrefix(s, t) == Len(s) <= Len(t) /\ s = SubSeq(t, 1, Len(s))

AddFacetSteps == {"add_data", "add_preview", "facet_proposal", "facet_theme", "facet_location"}

\* C8: facets are added in the order facet_proposal, facet_theme,
\* facet_location and, once the three calls are made, exactly these three
\* are added, with weights 10 < 20 < 30, distinct keys, filter keys and
\* collection identifiers; facet_tag, facet_link and facet_item_type are
\* never in the registry.
C8_ThreeFacets ==
    Has(composer) =>
        LET added == Added(composer[1])
            keys == Column(added, LAMBDA f : f.key)
            filters == Column(added, LAMBDA f : f.filter_key)
            weights == Column(added, LAMBDA f : f.weight)
            colls == Column(added, LAMBDA f : f.collection_key)
        IN  /\ IsPrefix(keys, <<"facet_proposal", "facet_theme", "facet_location">>)
            /\ pc \notin AddFacetSteps => Len(added) = 3
            /\ IsPrefix(filters, <<"proposal", "theme", "location">>)
            /\ IsPrefix(colls, <<"XWXU8XAB", "Z27MIXI7", "5JVH374W">>)
            /\ \A i, j \in 1..Len(added) :
                i < j => /\ weights[i] < weights[j]
                         /\ keys[i] # keys[j]
                         /\ filters[i] # filters[j]
                         /\ colls[i] # colls[j]
            /\ IsPrefix(weights, <<10, 20, 30>>)
            /\ \A k \in {"facet_tag", "facet_link", "facet_item_type"} :
                WithKey(composer[1].facets, k) = <<>>

\* the load has completed with the three facets registered
C8_Witness ==
    /\ pc = "done"
    /\ Len(Added(composer[1])) = 3
    /\ Added(composer[1])[3].key = "facet_location"
    /\ Added(composer[1])[3].weight = 30
====
